---------------------------- MODULE Spec2Model ----------------------------
(***************************************************************************)
(* Position lifecycle of the rule-based trading scripts:                   *)
(*   backtest.py  backtest(df)             - Spec, SpecParam               *)
(*   gainer.py    run_loop()               - SpecGainer                    *)
(*   mogitest.py  VolatilityBreakoutBot    - SpecBot                       *)
(* Floating point numbers are modelled as exact rationals <<n, d>> in      *)
(* lowest terms; <<0, 0>> is NaN.                                          *)
(***************************************************************************)
EXTENDS Integers, Sequences, FiniteSets, TLC

(***************************************************************************)
(* Python float arithmetic, as exact rationals.                            *)
(***************************************************************************)
Abs(x) == IF x < 0 THEN -x ELSE x

RECURSIVE GCD(_, _)
GCD(a, b) == IF b = 0 THEN a ELSE GCD(b, a % b)

NaN == <<0, 0>>
None == <<-1, 0>>

isna(x) == x = NaN

R(n, d) ==
    IF d = 0 THEN NaN
    ELSE LET g == GCD(Abs(n), Abs(d))
             s == IF d < 0 THEN -1 ELSE 1
         IN  <<s * (n \div g), s * (d \div g)>>

Zero == <<0, 1>>
One == <<1, 1>>
Hundred == <<100, 1>>

Mul(a, b) ==
    IF isna(a) \/ isna(b) THEN NaN
    ELSE LET g1 == GCD(Abs(a[1]), b[2])
             g2 == GCD(Abs(b[1]), a[2])
         IN  IF a[1] = 0 \/ b[1] = 0 THEN Zero
             ELSE <<(a[1] \div g1) * (b[1] \div g2), (a[2] \div g2) * (b[2] \div g1)>>

Neg(a) == IF isna(a) THEN NaN ELSE <<-a[1], a[2]>>

Inv(a) == IF isna(a) THEN NaN ELSE R(a[2], a[1])

Div(a, b) == Mul(a, Inv(b))

Add(a, b) ==
    IF isna(a) \/ isna(b) THEN NaN
    ELSE LET g == GCD(a[2], b[2])
         IN  R(a[1] * (b[2] \div g) + b[1] * (a[2] \div g), (a[2] \div g) * b[2])

Sub(a, b) == Add(a, Neg(b))

\* a <= b, a < b on floats: every comparison with NaN is False
Le(a, b) ==
    IF isna(a) \/ isna(b) THEN FALSE
    ELSE LET g == GCD(a[2], b[2])
         IN  a[1] * (b[2] \div g) <= b[1] * (a[2] \div g)

Lt(a, b) ==
    IF isna(a) \/ isna(b) THEN FALSE
    ELSE LET g == GCD(a[2], b[2])
         IN  a[1] * (b[2] \div g) < b[1] * (a[2] \div g)

(***************************************************************************)
(* backtest.py: settings                                                   *)
(***************************************************************************)
INITIAL_CASH == 100000

PARTIAL_TRIGGERS == << R(1, 2), R(1, 1), R(3, 2), R(2, 1) >>

STOP_LOSS_PCT == R(-1, 1)

EXIT_ON_TENKAN_SLOPE == TRUE

cols_needed == <<"tenkan", "tenkan_prev", "kijun", "di_pos", "di_neg",
                 "stoch_k", "stoch_d", "sma48", "buy_sig", "high", "low", "close">>

\* bounds of the model
MaxBars == 3
MaxRecords == 6

VARIABLES
    INVEST_RATIO, FEE_RATE, SLIPPAGE, PARTIAL_FRACTION,
    cash, units, entry, in_pos, hit, records,
    row, ts, pc

cfgvars == <<INVEST_RATIO, FEE_RATE, SLIPPAGE, PARTIAL_FRACTION>>
btvars == <<cash, units, entry, in_pos, hit, records>>
Range(s) == {s[i] : i \in DOMAIN s}

RECURSIVE InsertSorted(_, _)
InsertSorted(x, s) ==
    IF s = <<>> THEN <<x>>
    ELSE IF Le(x, Head(s)) THEN <<x>> \o s
    ELSE <<Head(s)>> \o InsertSorted(x, Tail(s))

RECURSIVE sorted(_)
sorted(s) == IF s = <<>> THEN <<>> ELSE InsertSorted(Head(s), sorted(Tail(s)))

(***************************************************************************)
(* The bars of df.  A row holds the twelve columns the loop requires;      *)
(* buy_sig is a boolean column (a conjunction of comparisons, never NaN).  *)
(***************************************************************************)
Closes == {R(100, 1), R(125, 1)}
Highs == {R(503, 5), R(508, 5), R(255, 2)}
Lows == {R(98, 1)}

BaseRow(c, h, l, t, sig) ==
    [tenkan |-> t, tenkan_prev |-> IF isna(t) THEN NaN ELSE R(2, 1),
     kijun |-> One, di_pos |-> One,
     di_neg |-> One, stoch_k |-> One, stoch_d |-> One, sma48 |-> One,
     buy_sig |-> sig, high |-> h, low |-> l, close |-> c]

\* low <= close <= high
WellFormedRows ==
    UNION {{BaseRow(c, h, l, t, sig) :
                h \in {x \in Highs : Le(c, x)} \cup {c}, l \in Lows \cup {c},
                t \in {R(1, 1), R(2, 1)}, sig \in BOOLEAN} : c \in Closes}

NumericCols == {cols_needed[i] : i \in DOMAIN cols_needed} \ {"buy_sig"}

\* rows with one column missing, over a row that would otherwise trade
MalformedRows ==
    {[BaseRow(R(100, 1), R(508, 5), l, R(1, 1), TRUE) EXCEPT ![c] = NaN] :
        c \in NumericCols, l \in {R(98, 1), R(100, 1)}}

Rows == WellFormedRows \cup MalformedRows

NoRow == BaseRow(NaN, NaN, NaN, NaN, FALSE)

\* AnyNaN looking at the price columns only
AnyNaN_PricesOnly(b) == isna(b.high) \/ isna(b.low) \/ isna(b.close)

\* any(pd.isna(row[c]) for c in cols_needed)
AnyNaN(b) ==
    \E i \in DOMAIN cols_needed :
        cols_needed[i] # "buy_sig" /\ isna(b[cols_needed[i]])

(***************************************************************************)
(* backtest(): the state of the loop as a record                           *)
(***************************************************************************)
St == [cash |-> cash, units |-> units, entry |-> entry, in_pos |-> in_pos,
       hit |-> hit, records |-> records]

\* a line of the trade log: price and qty are the fill (the log prints the
\* price rounded); thr is the ladder threshold of a partial exit
Rec(t, side, fill, qty, note, thr) ==
    [time |-> t, side |-> side, price |-> fill, qty |-> qty, note |-> note,
     thr |-> thr]

\* BuySizing without the re-solve of lines 109-115
BuySizing_NoResolve(c, price) ==
    LET buy    == Mul(price, Add(One, SLIPPAGE))
        budget == Mul(c, INVEST_RATIO)
        qty    == Div(budget, buy)
        cost   == Mul(buy, qty)
        out    == Add(cost, Mul(cost, FEE_RATE))
    IN  IF Le(budget, Zero) THEN [ok |-> FALSE, buy |-> buy, qty |-> Zero, out |-> Zero]
        ELSE [ok |-> TRUE, buy |-> buy, qty |-> qty, out |-> out]

\* BuySizing whose re-solve of line 110 leaves the fee out of the divisor
BuySizing_ResolveNoFee(c, price) ==
    LET buy    == Mul(price, Add(One, SLIPPAGE))
        budget == Mul(c, INVEST_RATIO)
        qty    == Div(budget, buy)
        cost   == Mul(buy, qty)
        out    == Add(cost, Mul(cost, FEE_RATE))
        qty2   == Div(c, buy)
        cost2  == Mul(buy, qty2)
        out2   == Add(cost2, Mul(cost2, FEE_RATE))
    IN  IF Le(budget, Zero) THEN [ok |-> FALSE, buy |-> buy, qty |-> Zero, out |-> Zero]
        ELSE IF Lt(c, out)
             THEN IF Le(qty2, Zero)
                  THEN [ok |-> FALSE, buy |-> buy, qty |-> qty2, out |-> Zero]
                  ELSE [ok |-> TRUE, buy |-> buy, qty |-> qty2, out |-> out2]
             ELSE [ok |-> TRUE, buy |-> buy, qty |-> qty, out |-> out]

\* lines 101-115: fill price, quantity and outlay of a buy
BuySizing(c, price) ==
    LET buy    == Mul(price, Add(One, SLIPPAGE))
        budget == Mul(c, INVEST_RATIO)
        qty    == Div(budget, buy)
        cost   == Mul(buy, qty)
        fee    == Mul(cost, FEE_RATE)
        out    == Add(cost, fee)
        qty2   == Div(c, Mul(buy, Add(One, FEE_RATE)))
        cost2  == Mul(buy, qty2)
        fee2   == Mul(cost2, FEE_RATE)
        out2   == Add(cost2, fee2)
    IN  IF Le(budget, Zero) THEN [ok |-> FALSE, buy |-> buy, qty |-> Zero, out |-> Zero]
        ELSE IF Lt(c, out)
             THEN IF Le(qty2, Zero)
                  THEN [ok |-> FALSE, buy |-> buy, qty |-> qty2, out |-> Zero]
                  ELSE [ok |-> TRUE, buy |-> buy, qty |-> qty2, out |-> out2]
             ELSE [ok |-> TRUE, buy |-> buy, qty |-> qty, out |-> out]

\* EnterPosition that keeps the triggers of the previous position, if any
EnterPosition_KeepsHit(s, b, t) ==
    LET z == BuySizing(s.cash, b.close)
        c == Sub(s.cash, z.out)
    IN  IF ~z.ok THEN s
        ELSE [cash |-> c, units |-> z.qty, entry |-> z.buy, in_pos |-> TRUE,
              hit |-> IF s.hit = <<>>
                      THEN [thr \in Range(PARTIAL_TRIGGERS) |-> FALSE]
                      ELSE s.hit,
              records |-> Append(s.records,
                                 Rec(t, "BUY", z.buy, z.qty, "ENTRY", Zero))]

\* lines 100-125
EnterPosition(s, b, t) ==
    LET z == BuySizing(s.cash, b.close)
        c == Sub(s.cash, z.out)
    IN  IF ~z.ok THEN s
        ELSE [cash |-> c, units |-> z.qty, entry |-> z.buy, in_pos |-> TRUE,
              hit |-> [thr \in Range(PARTIAL_TRIGGERS) |-> FALSE],
              records |-> Append(s.records,
                                 Rec(t, "BUY", z.buy, z.qty, "ENTRY", Zero))]

\* line 130
StopLossPrice(e) == Mul(e, Add(One, Div(STOP_LOSS_PCT, Hundred)))

\* line 131
StopLossHit(s, b) == Le(b.low, StopLossPrice(s.entry)) /\ Lt(Zero, s.units)

\* a full liquidation at fill price sell (lines 133-140, 168-175, 180-187)
SellAll(s, sell, t, note) ==
    LET proceed == Mul(sell, s.units)
        fee     == Mul(proceed, FEE_RATE)
        c       == Add(s.cash, Sub(proceed, fee))
    IN  [cash |-> c, units |-> Zero, entry |-> None, in_pos |-> FALSE,
         hit |-> s.hit,
         records |-> Append(s.records, Rec(t, "SELL", sell, s.units, note, Zero))]

\* StopLoss filled at the bar's low
StopLoss_AtLow(s, b, t) ==
    SellAll(s, Mul(b.low, Sub(One, SLIPPAGE)), t, "STOP_LOSS")

\* lines 132-140
StopLoss(s, b, t) ==
    SellAll(s, Mul(StopLossPrice(s.entry), Sub(One, SLIPPAGE)), t, "STOP_LOSS")

\* line 149
LadderTarget(e, thr) == Mul(e, Add(One, Div(thr, Hundred)))

\* line 151
SellQty(u) == Mul(u, PARTIAL_FRACTION)

\* the quantity bought at the entry of the open position
EntryQty(recs) ==
    LET i == CHOOSE k \in DOMAIN recs :
                 recs[k].side = "BUY" /\ \A j \in DOMAIN recs : j > k => recs[j].side # "BUY"
    IN  recs[i].qty

\* FireRung that forgets to reduce the remaining quantity
FireRung_NoDeduct(s, thr, t) ==
    LET sell_qty == SellQty(s.units)
        sell     == LadderTarget(s.entry, thr)
        proceed  == Mul(sell, sell_qty)
        c        == Add(s.cash, Sub(proceed, Mul(proceed, FEE_RATE)))
    IN  [s EXCEPT !.cash = c,
                  !.hit = [s.hit EXCEPT ![thr] = TRUE],
                  !.records = Append(s.records,
                                     Rec(t, "SELL", sell, sell_qty, "PARTIAL", thr))]

\* FireRung that sells the fraction of the quantity bought at entry
FireRung_OfEntryQty(s, thr, t) ==
    LET sell_qty == Mul(EntryQty(s.records), PARTIAL_FRACTION)
        sell     == LadderTarget(s.entry, thr)
        proceed  == Mul(sell, sell_qty)
        c        == Add(s.cash, Sub(proceed, Mul(proceed, FEE_RATE)))
    IN  [s EXCEPT !.cash = c,
                  !.units = Sub(s.units, sell_qty),
                  !.hit = [s.hit EXCEPT ![thr] = TRUE],
                  !.records = Append(s.records,
                                     Rec(t, "SELL", sell, sell_qty, "PARTIAL", thr))]

\* FireRung that fills below the target by the sell-side slippage
FireRung_WithSlippage(s, thr, t) ==
    LET sell_qty == SellQty(s.units)
        sell     == Mul(LadderTarget(s.entry, thr), Sub(One, SLIPPAGE))
        proceed  == Mul(sell, sell_qty)
        fee      == Mul(proceed, FEE_RATE)
        c        == Add(s.cash, Sub(proceed, fee))
    IN  [s EXCEPT !.cash = c,
                  !.units = Sub(s.units, sell_qty),
                  !.hit = [s.hit EXCEPT ![thr] = TRUE],
                  !.records = Append(s.records,
                                     Rec(t, "SELL", sell, sell_qty, "PARTIAL", thr))]

\* lines 151-162: one rung fires
FireRung(s, thr, t) ==
    LET sell_qty == SellQty(s.units)
        sell     == LadderTarget(s.entry, thr)
        proceed  == Mul(sell, sell_qty)
        fee      == Mul(proceed, FEE_RATE)
        c        == Add(s.cash, Sub(proceed, fee))
    IN  [s EXCEPT !.cash = c,
                  !.units = Sub(s.units, sell_qty),
                  !.hit = [s.hit EXCEPT ![thr] = TRUE],
                  !.records = Append(s.records,
                                     Rec(t, "SELL", sell, sell_qty, "PARTIAL", thr))]

\* Ladder without the check of hit[thr] (line 147)
RECURSIVE Ladder_NoHitCheck(_, _, _, _, _)
Ladder_NoHitCheck(s, trg, k, b, t) ==
    IF k > Len(trg) THEN s
    ELSE IF Le(s.units, Zero) THEN s
    ELSE IF Le(LadderTarget(s.entry, trg[k]), b.high)
         THEN Ladder_NoHitCheck(FireRung(s, trg[k], t), trg, k + 1, b, t)
         ELSE Ladder_NoHitCheck(s, trg, k + 1, b, t)

\* lines 145-162: the loop over sorted(PARTIAL_TRIGGERS), from position k
RECURSIVE Ladder(_, _, _, _, _)
Ladder(s, trg, k, b, t) ==
    IF k > Len(trg) THEN s
    ELSE IF Le(s.units, Zero) THEN s
    ELSE IF s.hit[trg[k]] THEN Ladder(s, trg, k + 1, b, t)
    ELSE IF Le(LadderTarget(s.entry, trg[k]), b.high)
         THEN Ladder(FireRung(s, trg[k], t), trg, k + 1, b, t)
         ELSE Ladder(s, trg, k + 1, b, t)

\* line 166
TenkanDown(b) == Lt(b.tenkan, b.tenkan_prev)

\* TrendExit that also fires on a flat tenkan
TrendExit_OnFlat(s, b, t) ==
    IF EXIT_ON_TENKAN_SLOPE /\ Lt(Zero, s.units) /\ Le(b.tenkan, b.tenkan_prev)
    THEN SellAll(s, Mul(b.close, Sub(One, SLIPPAGE)), t, "TREND_EXIT")
    ELSE s

\* lines 165-175
TrendExit(s, b, t) ==
    IF EXIT_ON_TENKAN_SLOPE /\ Lt(Zero, s.units) /\ TenkanDown(b)
    THEN SellAll(s, Mul(b.close, Sub(One, SLIPPAGE)), t, "TREND_EXIT")
    ELSE s

\* Holding with the ladder and the trend exit ahead of the stop-loss
Holding_LadderFirst(s, b, t) ==
    LET s2 == TrendExit(Ladder(s, sorted(PARTIAL_TRIGGERS), 1, b, t), b, t)
    IN  IF s2.in_pos /\ StopLossHit(s2, b) THEN StopLoss(s2, b, t) ELSE s2

\* lines 128-175
Holding(s, b, t) ==
    IF StopLossHit(s, b) THEN StopLoss(s, b, t)
    ELSE TrendExit(Ladder(s, sorted(PARTIAL_TRIGGERS), 1, b, t), b, t)

\* ProcessRow that enters on buy_sig whether or not a position is held
ProcessRow_IgnoresHolding(s, b, t) ==
    IF AnyNaN(b) THEN s
    ELSE IF b.buy_sig THEN EnterPosition(s, b, t)
    ELSE IF s.in_pos THEN Holding(s, b, t)
    ELSE s

\* ProcessRow without the continue of line 125: the exit rules run on the
\* bar of the entry as well
ProcessRow_NoContinue(s, b, t) ==
    IF AnyNaN(b) THEN s
    ELSE IF ~s.in_pos /\ b.buy_sig THEN Holding(EnterPosition(s, b, t), b, t)
    ELSE IF s.in_pos THEN Holding(s, b, t)
    ELSE s

\* lines 92-175: one iteration of the loop over df.iterrows()
ProcessRow(s, b, t) ==
    IF AnyNaN(b) THEN s
    ELSE IF ~s.in_pos /\ b.buy_sig THEN EnterPosition(s, b, t)
    ELSE IF s.in_pos THEN Holding(s, b, t)
    ELSE s

\* backtest() without the forced liquidation of lines 178-187
ForcedExit_Skipped(s, last, t) == s

\* lines 178-187
ForcedExit(s, last, t) ==
    IF s.in_pos /\ t > 0
    THEN SellAll(s, Mul(last.close, Sub(One, SLIPPAGE)), t, "FORCED_EXIT")
    ELSE s

\* lines 189-205: log = pd.DataFrame(records) and the summary computed from
\* it. A frame built from an empty list has no columns, so log['side'] of
\* line 190 raises KeyError; otherwise total_trades counts the SELL lines
\* and final_value is the cash.
Summary(recs, c) ==
    IF recs = <<>>
    THEN [raised |-> TRUE, total_trades |-> 0, final_value |-> None]
    ELSE [raised |-> FALSE,
          total_trades |-> Cardinality({i \in DOMAIN recs : recs[i].side = "SELL"}),
          final_value |-> c]

Assign(s) ==
    /\ cash' = s.cash
    /\ units' = s.units
    /\ entry' = s.entry
    /\ in_pos' = s.in_pos
    /\ hit' = s.hit
    /\ records' = s.records

\* lines 80-88
InitBacktest ==
    /\ cash = R(INITIAL_CASH, 1)
    /\ units = Zero
    /\ entry = None
    /\ in_pos = FALSE
    /\ hit = <<>>
    /\ records = <<>>
    /\ row = NoRow
    /\ ts = 0
    /\ pc = "loop"

\* the fee and slippage rates of a run: <<FEE_RATE, SLIPPAGE>>
Rates == {<<Zero, Zero>>, <<R(1, 4), Zero>>, <<Zero, R(1, 4)>>, <<R(1, 4), R(1, 4)>>}

\* the settings as backtest.py sets them (lines 13, 27)
InitSettings ==
    /\ INVEST_RATIO = One
    /\ PARTIAL_FRACTION = R(1, 4)
    /\ \E r \in Rates : FEE_RATE = r[1] /\ SLIPPAGE = r[2]

\* fee and slippage rates up to and beyond 100 %
WideRates == {<<Zero, Zero>>, <<R(1, 4), R(1, 4)>>, <<One, One>>,
              <<R(2, 1), Zero>>, <<Zero, R(2, 1)>>}

\* lines 13-14, 27 with any of these rates and INVEST_RATIO 1/2 or 1
InitSettingsRates ==
    /\ INVEST_RATIO \in {R(1, 2), One}
    /\ PARTIAL_FRACTION = R(1, 4)
    /\ \E r \in WideRates : FEE_RATE = r[1] /\ SLIPPAGE = r[2]

\* other settings a user can choose
InitSettingsParam ==
    /\ INVEST_RATIO \in {R(1, 2), One}
    /\ PARTIAL_FRACTION \in {R(1, 4), One}
    /\ \E r \in Rates : FEE_RATE = r[1] /\ SLIPPAGE = r[2]

(***************************************************************************)
(* gainer.py: run_loop().  One polling cycle is one step.  The exchange is *)
(* an input of the cycle: the ranking returned by get_top_change_markets   *)
(* (or its failure), and for each market the outcome of the calls made to  *)
(* buy it or to sell it.                                                   *)
(***************************************************************************)
Markets == {"KRW-A", "KRW-B", "KRW-C"}

\* the length of the ranking (20 in gainer.py) and the cycles of a run
TOPN == 2
MaxRounds == 4

MAX_HOLDINGS == 3

VARIABLES
    loop_round, prev_top_set, candidates, positions, buy_blocklist,
    registered, evaluated, reached, decisions, last_ranking

gvars == <<loop_round, prev_top_set, candidates, positions, buy_blocklist,
           registered, evaluated, reached, decisions, last_ranking>>

\* registered, evaluated, reached and decisions are the history of the run:
\* <<market, round>> of every registration, <<market, born round, round>> of
\* every evaluation, the rounds that came to the evaluation step, and for
\* every evaluation its base_rank, its new_rank (0 when the market has left
\* the ranking) and whether it called buy_with_ratio; last_ranking is the
\* ranking of the latest round that obtained one
GSt == [loop_round |-> loop_round, prev_top_set |-> prev_top_set,
        candidates |-> candidates, positions |-> positions,
        buy_blocklist |-> buy_blocklist, registered |-> registered,
        evaluated |-> evaluated, reached |-> reached, decisions |-> decisions,
        last_ranking |-> last_ranking]

\* the rankings get_top_change_markets can return: distinct markets, best
\* first, at most TOPN of them
Rankings ==
    {s \in UNION {[1..n -> Markets] : n \in 1..TOPN} :
        \A i, j \in DOMAIN s : i # j => s[i] # s[j]}

\* the outcome of line 212: a ranking, or an exception
Fetches ==
    {[ok |-> FALSE, top |-> <<>>]} \cup {[ok |-> TRUE, top |-> s] : s \in Rankings}

\* buy_with_ratio's calls: the balance query raises, the budget is below
\* MIN_ORDER_KRW, the order raises, the order is accepted
BuyOutcomes == {"balance_error", "budget_low", "order_error", "accepted"}

\* the sell phase's calls for one position
SellOutcomes == {"rsi_missing", "rsi_up", "zero_balance", "order_error",
                 "accepted"}

\* curr_ranks[m]
RankOf(top, m) == CHOOSE i \in DOMAIN top : top[i] = m

\* lines 222-225
NewEntries(g, top) ==
    IF g.prev_top_set # {} THEN Range(top) \ g.prev_top_set ELSE {}

\* the orders in which "for m in new_entries" can walk the set
Orders(S) == {s \in [1..Cardinality(S) -> S] : Range(s) = S}

\* candidates[m] = {...}: a new key goes last, an existing key keeps its place
SetCandidate(c, m, rank, round) ==
    LET v == [market |-> m, rank |-> rank, round |-> round]
    IN  IF \E i \in DOMAIN c : c[i].market = m
        THEN [i \in DOMAIN c |-> IF c[i].market = m THEN v ELSE c[i]]
        ELSE Append(c, v)

\* lines 233-234
RECURSIVE Register(_, _, _, _)
Register(g, top, ord, k) ==
    IF k > Len(ord) THEN g
    ELSE Register([g EXCEPT
                      !.candidates = SetCandidate(@, ord[k], RankOf(top, ord[k]),
                                                  g.loop_round),
                      !.registered = @ \cup {<<ord[k], g.loop_round>>}],
                  top, ord, k + 1)

\* buy_with_ratio without the holdings limit of lines 159-161
buy_with_ratio_NoLimit(g, m, o) ==
    IF m \in g.positions \/ m \in g.buy_blocklist THEN "none"
    ELSE IF o = "balance_error" THEN "raise"
    ELSE IF o = "budget_low" THEN "none"
    ELSE IF o = "order_error" THEN "none"
    ELSE "res"

\* lines 158-181: "res" (the order's answer), "none" or "raise"
buy_with_ratio(g, m, o) ==
    IF Cardinality(g.positions) >= MAX_HOLDINGS THEN "none"
    ELSE IF m \in g.positions \/ m \in g.buy_blocklist THEN "none"
    ELSE IF o = "balance_error" THEN "raise"
    ELSE IF o = "budget_low" THEN "none"
    ELSE IF o = "order_error" THEN "none"
    ELSE "res"

\* the mutant of RankImproved that also takes an unchanged rank
RankImproved_OrEqual(top, info) ==
    info.market \in Range(top) /\ RankOf(top, info.market) <= info.rank

\* lines 245-247: m in curr_ranks and new_rank < base_rank
RankImproved(top, info) ==
    info.market \in Range(top) /\ RankOf(top, info.market) < info.rank

\* the record of an evaluation
Decision(g, top, info, buy) ==
    [market |-> info.market, round |-> g.loop_round, base_rank |-> info.rank,
     new_rank |-> IF info.market \in Range(top) THEN RankOf(top, info.market)
                  ELSE 0,
     buy |-> buy]

\* lines 237-262: the loop over list(candidates.items()), from position k;
\* raised: an exception left the loop
RECURSIVE Evaluate(_, _, _, _, _, _)
Evaluate(g, cands, k, top, bo, del) ==
    IF k > Len(cands) THEN [g |-> g, to_delete |-> del, raised |-> FALSE]
    ELSE
      LET info == cands[k]
          m    == info.market
          buy  == RankImproved(top, info)
          g1   == [g EXCEPT !.evaluated = @ \cup {<<m, info.round, g.loop_round>>},
                            !.decisions = @ \cup {Decision(g, top, info, buy)}]
      IN  IF g.loop_round = info.round + 1
          THEN IF buy
               THEN LET res == buy_with_ratio(g1, m, bo[m])
                    IN  IF res = "raise"
                        THEN [g |-> g1, to_delete |-> del, raised |-> TRUE]
                        ELSE IF res = "res"
                        THEN Evaluate([g1 EXCEPT !.positions = @ \cup {m},
                                                 !.buy_blocklist = @ \cup {m}],
                                      cands, k + 1, top, bo, del \cup {m})
                        ELSE Evaluate(g1, cands, k + 1, top, bo, del \cup {m})
               ELSE Evaluate(g1, cands, k + 1, top, bo, del \cup {m})
          ELSE IF g.loop_round > info.round + 1
          THEN Evaluate(g, cands, k + 1, top, bo, del \cup {m})
          ELSE Evaluate(g, cands, k + 1, top, bo, del)

\* SellPhase that also drops a position whose balance query returned 0
SellPhase_DropsOnZeroBalance(g, so) ==
    LET sold == {m \in g.positions : so[m] \in {"accepted", "zero_balance"}}
    IN  [g EXCEPT !.positions = @ \ sold, !.buy_blocklist = @ \ sold]

\* lines 268-284: a position is dropped when its sell order is accepted
SellPhase(g, so) ==
    LET sold == {m \in g.positions : so[m] = "accepted"}
    IN  [g EXCEPT !.positions = @ \ sold, !.buy_blocklist = @ \ sold]

\* lines 208-294: one cycle of the loop
Round(g, f, ord, bo, so) ==
    LET g0 == [g EXCEPT !.loop_round = @ + 1]
    IN  IF ~f.ok THEN g0
        ELSE
          LET g1 == Register(g0, f.top, ord, 1)
              g2 == [g1 EXCEPT !.reached = @ \cup {g0.loop_round},
                               !.last_ranking = f.top]
              e  == Evaluate(g2, g2.candidates, 1, f.top, bo, {})
              g3 == [e.g EXCEPT !.candidates =
                                   SelectSeq(@, LAMBDA c : c.market \notin e.to_delete)]
          IN  IF e.raised THEN e.g
              ELSE [SellPhase(g3, so) EXCEPT !.prev_top_set = Range(f.top)]

AssignG(g) ==
    /\ loop_round' = g.loop_round
    /\ prev_top_set' = g.prev_top_set
    /\ candidates' = g.candidates
    /\ positions' = g.positions
    /\ buy_blocklist' = g.buy_blocklist
    /\ registered' = g.registered
    /\ evaluated' = g.evaluated
    /\ reached' = g.reached
    /\ decisions' = g.decisions
    /\ last_ranking' = g.last_ranking

\* lines 39-51
InitGainer ==
    /\ loop_round = 0
    /\ prev_top_set = {}
    /\ candidates = <<>>
    /\ positions = {}
    /\ buy_blocklist = {}
    /\ registered = {}
    /\ evaluated = {}
    /\ reached = {}
    /\ decisions = {}
    /\ last_ranking = <<>>

(***************************************************************************)
(* mogitest.py: VolatilityBreakoutBot in DRY_RUN mode.  A dict is a        *)
(* function on its keys.  The exchange is an input of each call: the       *)
(* candles of process_symbol, the price fetched by buy_market and          *)
(* sell_market (None when the fetch failed), and what becomes of the state *)
(* file when save_state writes it.                                         *)
(***************************************************************************)
DRY_RUN == TRUE

INITIAL_VIRTUAL_KRW == 1000000

ORDER_KRW_PORTION == R(3, 10)

K == R(1, 2)

Tickers == {"KRW-BTC"}

\* the candle times, the fills and the process starts of a run
MaxCandles == 2
MaxOrders == 2
MaxBoots == 2

VARIABLES
    fee_rate,
    virtual_krw, virtual_coin, in_position, current_bar_time, entry_price_map,
    invested_krw, state_file, orders, boots, running

\* the fields of the bot that __init__ sets for the account and the positions
memvars == <<virtual_krw, virtual_coin, in_position, current_bar_time,
             entry_price_map, invested_krw>>

mvars == <<fee_rate, virtual_krw, virtual_coin, in_position, current_bar_time,
           entry_price_map, invested_krw, state_file, orders, boots, running>>

Bot == [virtual_krw |-> virtual_krw, virtual_coin |-> virtual_coin,
        in_position |-> in_position, current_bar_time |-> current_bar_time,
        entry_price_map |-> entry_price_map, invested_krw |-> invested_krw,
        state_file |-> state_file, orders |-> orders]

\* d.get(k, default) and d[k] = v
Get(d, k, default) == IF k \in DOMAIN d THEN d[k] ELSE default

Put(d, k, v) == [x \in DOMAIN d \cup {k} |-> IF x = k THEN v ELSE d[x]]

\* lines 110-112
validate_price(price) ==
    price # None /\ ~isna(price) /\ Lt(Zero, price)

\* the state file: absent, a complete snapshot, or a truncated one
NoFile == [kind |-> "absent"]

Truncated == [kind |-> "partial"]

\* lines 188-194: the keys save_state writes (and the time of the write,
\* which load_state does not read)
Snapshot(b) ==
    [kind |-> "snapshot", virtual_krw |-> b.virtual_krw,
     virtual_coin |-> b.virtual_coin, in_position |-> b.in_position,
     invested_krw |-> b.invested_krw]

\* what a write can do: succeed, fail before the file is opened, or fail
\* after open(STATE_FILE, 'w') has truncated it
SaveOutcomes == {"ok", "open_fails", "write_fails"}

\* the mutant of save_state that drops the invested amounts when the write
\* fails
save_state_DropsOnFailure(b, w) ==
    IF w = "ok" THEN [b EXCEPT !.state_file = Snapshot(b)]
    ELSE IF w = "write_fails"
    THEN [b EXCEPT !.state_file = Truncated, !.invested_krw = <<>>]
    ELSE [b EXCEPT !.invested_krw = <<>>]

\* lines 186-201
save_state(b, w) ==
    IF w = "ok" THEN [b EXCEPT !.state_file = Snapshot(b)]
    ELSE IF w = "write_fails" THEN [b EXCEPT !.state_file = Truncated]
    ELSE b

\* lines 165-184
load_state(b) ==
    IF b.state_file.kind = "absent" THEN b
    ELSE IF b.state_file.kind = "partial" THEN b
    ELSE LET b1 == IF DRY_RUN
                   THEN [b EXCEPT !.virtual_krw = b.state_file.virtual_krw,
                                  !.virtual_coin = b.state_file.virtual_coin]
                   ELSE b
         IN  [b1 EXCEPT !.in_position = b.state_file.in_position,
                        !.invested_krw = b.state_file.invested_krw]

\* lines 130-150: a new bot over the state file f
NewBot(f, n) ==
    load_state([virtual_krw |-> R(INITIAL_VIRTUAL_KRW, 1), virtual_coin |-> <<>>,
                in_position |-> <<>>, current_bar_time |-> <<>>,
                entry_price_map |-> <<>>, invested_krw |-> <<>>,
                state_file |-> f, orders |-> n])

\* lines 332-363: price is the fetched price or None
buy_market(b, ticker, amount_krw, price, w) ==
    IF Le(amount_krw, Zero) THEN b
    ELSE IF ~validate_price(price) THEN b
    ELSE LET use_krw == IF Le(b.virtual_krw, amount_krw) THEN b.virtual_krw
                        ELSE amount_krw
             buy_krw == Mul(use_krw, Sub(One, fee_rate))
             qty     == Div(buy_krw, price)
         IN  IF Lt(use_krw, R(1000, 1)) THEN b
             ELSE save_state(
                    [b EXCEPT !.virtual_krw = Sub(@, use_krw),
                              !.virtual_coin =
                                  Put(@, ticker, Add(Get(@, ticker, Zero), qty)),
                              !.invested_krw = Put(@, ticker, use_krw),
                              !.orders = @ + 1], w)

\* lines 385-422
sell_market(b, ticker, price, w) ==
    IF ~validate_price(price) THEN b
    ELSE LET qty      == Get(b.virtual_coin, ticker, Zero)
             sell_krw == Mul(Mul(qty, price), Sub(One, fee_rate))
         IN  IF Le(qty, Zero) THEN b
             ELSE save_state(
                    [b EXCEPT !.virtual_krw = Add(@, sell_krw),
                              !.virtual_coin = Put(@, ticker, Zero),
                              !.invested_krw = Put(@, ticker, Zero),
                              !.orders = @ + 1], w)

\* dict.pop(k, None)
Pop(d, k) == [x \in DOMAIN d \ {k} |-> d[x]]

\* lines 203-219 (DRY_RUN): the tickers of in_position that are not in the
\* universe lose their flag, candle time and entry price, and are sold if
\* held; ps is the price sell_market fetches
RECURSIVE cleanup_old_positions(_, _, _, _)
cleanup_old_positions(b, to_remove, ps, w) ==
    IF to_remove = {} THEN b
    ELSE LET ticker == CHOOSE x \in to_remove : TRUE
             b1 == [b EXCEPT !.in_position = Pop(@, ticker),
                             !.current_bar_time = Pop(@, ticker),
                             !.entry_price_map = Pop(@, ticker)]
             b2 == IF DRY_RUN /\ Lt(Zero, Get(b1.virtual_coin, ticker, Zero))
                   THEN sell_market(b1, ticker, ps, w)
                   ELSE b1
         IN  cleanup_old_positions(b2, to_remove \ {ticker}, ps, w)

\* the candles process_symbol reads: the time of the current candle, whether
\* the previous candle's averages are aligned, its range, the current open
\* and high; valid is validate_dataframe and the NaN check of the averages
Candle(v, t, a, r, h) ==
    [valid |-> v, time |-> t, aligned |-> a, range_prev |-> r,
     open |-> R(100, 1), high |-> h]

Candles ==
    {Candle(FALSE, 1, FALSE, Zero, R(100, 1))} \cup
    {Candle(TRUE, t, x[1], x[2], x[3]) :
        t \in 1..MaxCandles,
        x \in {<<FALSE, R(20, 1), R(120, 1)>>, <<TRUE, Zero, R(120, 1)>>,
               <<TRUE, R(20, 1), R(100, 1)>>, <<TRUE, R(20, 1), R(120, 1)>>}}

Prices == {None, R(100, 1), R(200, 1)}

\* lines 548-590: the breakout check
Breakout(b, ticker, df, pb, w) ==
    IF Get(b.in_position, ticker, FALSE) THEN b
    ELSE LET entry_price == Get(b.entry_price_map, ticker, None)
         IN  IF entry_price = None THEN b
             ELSE IF ~validate_price(df.high) THEN b
             ELSE IF Le(entry_price, df.high)
             THEN [buy_market(b, ticker, Mul(b.virtual_krw, ORDER_KRW_PORTION), pb, w)
                      EXCEPT !.in_position = Put(@, ticker, TRUE)]
             ELSE b

\* lines 491-546: a new candle has started
NewCandle(b, ticker, df, ps, pb, w) ==
    LET b1 == IF Get(b.in_position, ticker, FALSE)
              THEN [sell_market(b, ticker, ps, w)
                       EXCEPT !.in_position = Put(@, ticker, FALSE)]
              ELSE b
        b2 == [b1 EXCEPT !.current_bar_time = Put(@, ticker, df.time)]
        entry_price == Add(df.open, Mul(df.range_prev, K))
        unset == [b2 EXCEPT !.entry_price_map = Put(@, ticker, None)]
    IN  IF df.aligned
        THEN IF Le(df.range_prev, Zero) THEN unset
             ELSE IF ~validate_price(entry_price) THEN unset
             ELSE Breakout([b2 EXCEPT !.entry_price_map = Put(@, ticker, entry_price)],
                           ticker, df, pb, w)
        ELSE unset

\* lines 463-593
process_symbol(b, ticker, df, ps, pb, w) ==
    IF ~df.valid THEN b
    ELSE IF ticker \notin DOMAIN b.current_bar_time
            \/ df.time # b.current_bar_time[ticker]
         THEN NewCandle(b, ticker, df, ps, pb, w)
         ELSE Breakout(b, ticker, df, pb, w)

AssignM(b) ==
    /\ virtual_krw' = b.virtual_krw
    /\ virtual_coin' = b.virtual_coin
    /\ in_position' = b.in_position
    /\ current_bar_time' = b.current_bar_time
    /\ entry_price_map' = b.entry_price_map
    /\ invested_krw' = b.invested_krw
    /\ state_file' = b.state_file
    /\ orders' = b.orders

\* the fee rate of the dry run's fills (0.0005 in buy_market and sell_market)
FeeRates == {Zero, R(1, 4)}

\* main(): the first bot of a machine that has no state file
InitBot ==
    /\ virtual_krw = R(INITIAL_VIRTUAL_KRW, 1)
    /\ virtual_coin = <<>>
    /\ in_position = <<>>
    /\ current_bar_time = <<>>
    /\ entry_price_map = <<>>
    /\ invested_krw = <<>>
    /\ state_file = NoFile
    /\ orders = 0
    /\ boots = 1
    /\ running = TRUE

(***************************************************************************)
(* testyou.py: UpbitAutoTrader in dry-run mode.  target_coins is the list  *)
(* of monitored tickers and virtual_portfolio the tickers held; whether a  *)
(* buy or a sell goes through (signal, balance, price fetch) is an input.  *)
(***************************************************************************)
VARIABLES target_coins, virtual_portfolio, fetch_ok, tpc

\* fetch_ok: whether the last call of get_top_gainers obtained a ranking;
\* tpc: the call run() makes next
tvars == <<target_coins, virtual_portfolio, fetch_ok, tpc>>

\* lines 130-180: the ranking, or [] when the request fails or raises
get_top_gainers(f) == IF f.ok THEN f.top ELSE <<>>

\* lines 474-485: the tickers update_target_coins sells; paid[m] tells
\* whether sell_coin(m) goes through
Dropped(new_targets) ==
    {m \in Range(target_coins) : m \notin Range(new_targets)
                                   /\ m \in virtual_portfolio}

update_target_coins(new_targets, paid) ==
    /\ virtual_portfolio' =
          virtual_portfolio \ {m \in Dropped(new_targets) : paid[m]}
    /\ target_coins' = new_targets

\* lines 487-500: done[m] tells whether the sell of a held ticker, or the
\* buy of a ticker not held, goes through
monitor_and_trade(done) ==
    /\ virtual_portfolio' =
          (virtual_portfolio \ {m \in Range(target_coins) : done[m]})
             \cup {m \in Range(target_coins) : m \notin virtual_portfolio /\ done[m]}
    /\ UNCHANGED target_coins

\* lines 53-65
InitTrader ==
    /\ target_coins = <<>>
    /\ virtual_portfolio = {}
    /\ fetch_ok = TRUE
    /\ tpc = "update"

(***************************************************************************)
(* mogitest.py, retry_on_failure: one call of it, an iteration of its loop *)
(* per step.  The wrapped function either raises an Exception or returns a *)
(* value (which may be None).                                              *)
(***************************************************************************)
MAX_RETRIES == 3

RETRY_DELAY == R(1, 1)

BACKOFF_FACTOR == R(2, 1)

\* the largest max_retries of a call
MaxRetries == 5

VARIABLES retry, price_cache, clock, price_call

\* the price cache of the bot, the wall clock, and the last call of
\* get_current_price with what it did
pvars == <<price_cache, clock, price_call>>

uvars == <<retry, price_cache, clock, price_call>>

\* lines 87-88: the frame of a call; outcomes is what func() did at each
\* invocation and slept the waits of time.sleep, in order
NewRetry(max_retries, delay, backoff) ==
    [max_retries |-> max_retries, delay |-> delay, backoff |-> backoff,
     attempt |-> 0, current_delay |-> delay, outcomes |-> <<>>,
     slept |-> <<>>, pc |-> "loop", result |-> None]

\* the max_retries and delay arguments of the calls in mogitest.py
\* (lines 235, 253, 282, 469) and other small ones
Delays == {RETRY_DELAY, R(3, 1)}

Backoffs == {BACKOFF_FACTOR, R(3, 1)}

Retries == {NewRetry(m, dl, bf) : m \in 1..MaxRetries, dl \in Delays, bf \in Backoffs}

FuncOutcomes ==
    {[raises |-> TRUE, value |-> None]} \cup
    {[raises |-> FALSE, value |-> v] : v \in {None, R(100, 1), R(200, 1)}}

\* the mutant of retry_iteration that lets the last failure out
retry_iteration_ReraiseLast(r, o) ==
    LET r1 == [r EXCEPT !.outcomes = Append(@, o)]
    IN  IF ~o.raises
        THEN [r1 EXCEPT !.pc = "returned", !.result = o.value]
        ELSE IF r.attempt < r.max_retries - 1
             THEN [r1 EXCEPT !.slept = Append(@, r.current_delay),
                             !.current_delay = Mul(@, r.backoff),
                             !.attempt = @ + 1]
             ELSE [r1 EXCEPT !.attempt = @ + 1, !.pc = "raised"]

\* the mutant of retry_iteration that sleeps after every failure, the last
\* one included
retry_iteration_SleepsAfterLast(r, o) ==
    LET r1 == [r EXCEPT !.outcomes = Append(@, o)]
        r2 == [r1 EXCEPT !.slept = Append(@, r.current_delay),
                         !.current_delay = Mul(@, r.backoff)]
        r3 == [r2 EXCEPT !.attempt = @ + 1]
    IN  IF ~o.raises
        THEN [r1 EXCEPT !.pc = "returned", !.result = o.value]
        ELSE IF r3.attempt < r3.max_retries THEN r3
             ELSE [r3 EXCEPT !.pc = "returned", !.result = None]

\* lines 90-107: one iteration of the for loop, and what follows the loop
\* when the iteration was the last one
retry_iteration(r, o) ==
    LET r1 == [r EXCEPT !.outcomes = Append(@, o)]
        r2 == IF r.attempt < r.max_retries - 1
              THEN [r1 EXCEPT !.slept = Append(@, r.current_delay),
                              !.current_delay = Mul(@, r.backoff)]
              ELSE r1
        r3 == [r2 EXCEPT !.attempt = @ + 1]
    IN  IF ~o.raises
        THEN [r1 EXCEPT !.pc = "returned", !.result = o.value]
        ELSE IF r3.attempt < r3.max_retries THEN r3
             ELSE [r3 EXCEPT !.pc = "returned", !.result = None]

\* line 147: self._price_cache_ttl, in seconds
price_cache_ttl == 5

\* the seconds of wall clock a run covers
MaxClock == 6

\* what retry_on_failure(fetch_price) hands back: None when every attempt
\* failed or the exchange answered None, or a number, valid or not
Fetched == {None, NaN, Zero, R(-5, 1), R(100, 1), R(200, 1)}

NoCall ==
    [ticker |-> "", use_cache |-> FALSE, api_called |-> FALSE,
     fetched |-> None, result |-> None]

\* the mutant of get_current_price that serves an entry of age ttl
get_current_price_AtTTL(cache, ticker, use_cache, now, fetched) ==
    IF use_cache /\ ticker \in DOMAIN cache
                 /\ now - cache[ticker].time <= price_cache_ttl
    THEN [cache |-> cache, api_called |-> FALSE, result |-> cache[ticker].price]
    ELSE IF validate_price(fetched)
         THEN [cache |-> Put(cache, ticker, [price |-> fetched, time |-> now]),
               api_called |-> TRUE, result |-> fetched]
         ELSE [cache |-> cache, api_called |-> TRUE, result |-> None]

\* lines 221-242: the cache after the call, whether the API was called, and
\* the value returned; fetched is the API's answer when it is called
get_current_price(cache, ticker, use_cache, now, fetched) ==
    IF use_cache /\ ticker \in DOMAIN cache
                 /\ now - cache[ticker].time < price_cache_ttl
    THEN [cache |-> cache, api_called |-> FALSE, result |-> cache[ticker].price]
    ELSE IF validate_price(fetched)
         THEN [cache |-> Put(cache, ticker, [price |-> fetched, time |-> now]),
               api_called |-> TRUE, result |-> fetched]
         ELSE [cache |-> cache, api_called |-> TRUE, result |-> None]

\* buy_market whose price of line 338 is looked up with the cache allowed
buy_market_fetch_Cached(b, cache, ticker, amount_krw, now, fetched, w) ==
    LET g == get_current_price(cache, ticker, TRUE, now, fetched)
    IN  [bot |-> IF Le(amount_krw, Zero) THEN b
                 ELSE buy_market(b, ticker, amount_krw, g.result, w),
         cache |-> IF Le(amount_krw, Zero) THEN cache ELSE g.cache]

\* lines 332-363 with the price of line 338:
\* get_current_price(ticker, use_cache=False), not called when amount_krw <= 0
buy_market_fetch(b, cache, ticker, amount_krw, now, fetched, w) ==
    LET g == get_current_price(cache, ticker, FALSE, now, fetched)
    IN  [bot |-> IF Le(amount_krw, Zero) THEN b
                 ELSE buy_market(b, ticker, amount_krw, g.result, w),
         cache |-> IF Le(amount_krw, Zero) THEN cache ELSE g.cache]

\* lines 385-422 with the price of line 387
sell_market_fetch(b, cache, ticker, now, fetched, w) ==
    LET g == get_current_price(cache, ticker, FALSE, now, fetched)
    IN  [bot |-> sell_market(b, ticker, g.result, w), cache |-> g.cache]

\* no call of retry_on_failure or of get_current_price is under way in the
\* other programs
InitUtil ==
    /\ retry = NewRetry(MAX_RETRIES, RETRY_DELAY, BACKOFF_FACTOR)
    /\ price_cache = <<>>
    /\ clock = 0
    /\ price_call = NoCall
    /\ InitTrader

(***************************************************************************)
(* The programs as state machines                                          *)
(***************************************************************************)
vars == <<INVEST_RATIO, FEE_RATE, SLIPPAGE, PARTIAL_FRACTION,
          cash, units, entry, in_pos, hit, records, row, ts, pc,
          loop_round, prev_top_set, candidates, positions, buy_blocklist,
          registered, evaluated, reached, decisions, last_ranking,
          fee_rate, virtual_krw, virtual_coin, in_position, current_bar_time,
          entry_price_map, invested_krw, state_file, orders, boots, running,
          retry, price_cache, clock, price_call,
          target_coins, virtual_portfolio, fetch_ok, tpc>>

\* backtest.py alone: gainer.py and mogitest.py stay as they start
Init ==
    /\ InitSettings /\ InitBacktest
    /\ InitGainer
    /\ InitBot /\ fee_rate = Zero
    /\ InitUtil

InitParam ==
    /\ InitSettingsParam /\ InitBacktest
    /\ InitGainer
    /\ InitBot /\ fee_rate = Zero
    /\ InitUtil

\* gainer.py alone
InitGainerRun ==
    /\ InitSettings /\ FEE_RATE = Zero /\ SLIPPAGE = Zero /\ InitBacktest
    /\ InitGainer
    /\ InitBot /\ fee_rate = Zero
    /\ InitUtil

\* mogitest.py alone
InitBotRun ==
    /\ InitSettings /\ FEE_RATE = Zero /\ SLIPPAGE = Zero /\ InitBacktest
    /\ InitGainer
    /\ InitBot /\ fee_rate \in FeeRates
    /\ InitUtil

\* the most lines a row can add to the trade log: the runs explored are those
\* whose log stays within MaxRecords lines before the forced exit
MaxNewRecords(s, b) ==
    IF AnyNaN(b) THEN 0
    ELSE IF ~s.in_pos THEN 1
    ELSE IF StopLossHit(s, b) THEN 1
    ELSE 1 + Cardinality({thr \in Range(PARTIAL_TRIGGERS) :
                            ~s.hit[thr] /\ Le(LadderTarget(s.entry, thr), b.high)})

\* the loop takes the next row of df
Bar ==
    /\ pc = "loop"
    /\ ts < MaxBars
    /\ \E b \in Rows :
        /\ Len(records) + MaxNewRecords(St, b) <= MaxRecords
        /\ row' = b
        /\ ts' = ts + 1
        /\ Assign(ProcessRow(St, b, ts + 1))
    /\ UNCHANGED <<cfgvars, pc, gvars, mvars, uvars, tvars>>

\* df is exhausted: forced liquidation of an open position, then the
\* summary; backtest() returns (pc = "done") or raises (pc = "KeyError")
Finish ==
    /\ pc = "loop"
    /\ LET s == ForcedExit(St, row, ts)
       IN  /\ Assign(s)
           /\ pc' = IF Summary(s.records, s.cash).raised THEN "KeyError" ELSE "done"
    /\ UNCHANGED <<cfgvars, row, ts, gvars, mvars, uvars, tvars>>

Next == Bar \/ Finish

Spec == Init /\ [][Next]_vars

SpecParam == InitParam /\ [][Next]_vars

InitRates ==
    /\ InitSettingsRates /\ InitBacktest
    /\ InitGainer
    /\ InitBot /\ fee_rate = Zero
    /\ InitUtil

SpecRates == InitRates /\ [][Next]_vars

\* backtest.py with the fee rate of its run given to the dry-run bot as
\* well, so that the fills of the two can be compared
InitFill ==
    /\ InitSettings /\ InitBacktest
    /\ InitGainer
    /\ InitBot /\ fee_rate = FEE_RATE
    /\ InitUtil

SpecFill == InitFill /\ [][Next]_vars

\* the candidates for which the coming cycle calls buy_with_ratio, given its
\* ranking, and the positions its sell phase checks, given the buys
Buyers(top) ==
    {candidates[i].market :
        i \in {j \in DOMAIN candidates :
                  /\ candidates[j].round = loop_round
                  /\ RankImproved(top, candidates[j])}}

Checked(f, bo) ==
    IF f.ok THEN positions \cup {m \in DOMAIN bo : bo[m] = "accepted"} ELSE {}

\* one cycle of run_loop
Poll ==
    /\ loop_round < MaxRounds
    /\ \E f \in Fetches :
         \E ord \in Orders(NewEntries(GSt, f.top)) :
           \E bo \in [Buyers(f.top) -> BuyOutcomes] :
             \E so \in [Checked(f, bo) -> SellOutcomes] :
                AssignG(Round(GSt, f, ord, bo, so))
    /\ UNCHANGED <<cfgvars, btvars, row, ts, pc, mvars, uvars, tvars>>

NextGainer == Poll

SpecGainer == InitGainerRun /\ [][NextGainer]_vars

\* run() calls process_symbol for a ticker
Tick ==
    /\ running
    /\ \E ticker \in Tickers, df \in Candles, w \in SaveOutcomes :
         \E ps \in IF Get(in_position, ticker, FALSE) THEN Prices ELSE {None} :
           \E pb \in Prices :
             LET b == process_symbol(Bot, ticker, df, ps, pb, w)
             IN  /\ ticker \in DOMAIN current_bar_time
                        => df.time >= current_bar_time[ticker]
                 /\ b.orders <= MaxOrders
                 /\ AssignM(b)
    /\ UNCHANGED <<cfgvars, btvars, row, ts, pc, gvars, fee_rate, boots, running, uvars, tvars>>

\* run() saves the state at the end of an iteration
PeriodicSave ==
    /\ running
    /\ \E w \in SaveOutcomes : AssignM(save_state(Bot, w))
    /\ UNCHANGED <<cfgvars, btvars, row, ts, pc, gvars, fee_rate, boots, running, uvars, tvars>>

\* lines 659-662: KeyboardInterrupt in run(): the state is saved and the
\* loop is left
Interrupt ==
    /\ running
    /\ \E w \in SaveOutcomes : AssignM(save_state(Bot, w))
    /\ running' = FALSE
    /\ UNCHANGED <<cfgvars, btvars, row, ts, pc, gvars, fee_rate, boots, uvars, tvars>>

\* the process ends and main() builds a new bot over the state file
Restart ==
    /\ boots < MaxBoots
    /\ AssignM(NewBot(state_file, orders))
    /\ boots' = boots + 1
    /\ running' = TRUE
    /\ UNCHANGED <<cfgvars, btvars, row, ts, pc, gvars, fee_rate, uvars, tvars>>

NextBot == Tick \/ PeriodicSave \/ Interrupt \/ Restart

SpecBot == InitBotRun /\ [][NextBot]_vars

\* retry_on_failure alone: a call with some arguments
InitRetryRun ==
    /\ InitSettings /\ FEE_RATE = Zero /\ SLIPPAGE = Zero /\ InitBacktest
    /\ InitGainer
    /\ InitBot /\ fee_rate = Zero
    /\ retry \in Retries
    /\ price_cache = <<>> /\ clock = 0 /\ price_call = NoCall
    /\ InitTrader

\* the loop of retry_on_failure invokes func()
Attempt ==
    /\ retry.pc = "loop"
    /\ \E o \in FuncOutcomes : retry' = retry_iteration(retry, o)
    /\ UNCHANGED <<cfgvars, btvars, row, ts, pc, gvars, mvars, pvars, tvars>>

NextRetry == Attempt

SpecRetry == InitRetryRun /\ [][NextRetry]_vars

\* the bot asks for the price of a ticker
GetPrice ==
    /\ \E ticker \in Tickers, use_cache \in BOOLEAN, fetched \in Fetched :
         LET g == get_current_price(price_cache, ticker, use_cache, clock, fetched)
         IN  /\ price_cache' = g.cache
             /\ price_call' = [ticker |-> ticker, use_cache |-> use_cache,
                               api_called |-> g.api_called,
                               fetched |-> IF g.api_called THEN fetched ELSE None,
                               result |-> g.result]
    /\ UNCHANGED <<cfgvars, btvars, row, ts, pc, gvars, mvars, tvars, retry, clock>>

\* a second passes
Wait ==
    /\ clock < MaxClock
    /\ clock' = clock + 1
    /\ UNCHANGED <<cfgvars, btvars, row, ts, pc, gvars, mvars, tvars, retry,
                   price_cache, price_call>>

NextPrice == GetPrice \/ Wait

\* the dry-run bot with its price cache
InitOrder ==
    /\ InitSettings /\ FEE_RATE = Zero /\ SLIPPAGE = Zero /\ InitBacktest
    /\ InitGainer
    /\ InitBot /\ fee_rate = Zero
    /\ InitUtil

\* process_symbol calls buy_market (line 589)
BuyOrder ==
    /\ \E ticker \in Tickers, fetched \in Prices, w \in SaveOutcomes :
         LET x == buy_market_fetch(Bot, price_cache, ticker,
                                   Mul(virtual_krw, ORDER_KRW_PORTION), clock,
                                   fetched, w)
         IN  /\ x.bot.orders <= MaxOrders
             /\ AssignM(x.bot)
             /\ price_cache' = x.cache
    /\ UNCHANGED <<cfgvars, btvars, row, ts, pc, gvars, fee_rate, boots, running,
                   tvars, retry, clock, price_call>>

\* process_symbol or cleanup_old_positions calls sell_market (lines 498, 214)
SellOrder ==
    /\ \E ticker \in Tickers, fetched \in Prices, w \in SaveOutcomes :
         LET x == sell_market_fetch(Bot, price_cache, ticker, clock, fetched, w)
         IN  /\ x.bot.orders <= MaxOrders
             /\ AssignM(x.bot)
             /\ price_cache' = x.cache
    /\ UNCHANGED <<cfgvars, btvars, row, ts, pc, gvars, fee_rate, boots, running,
                   tvars, retry, clock, price_call>>

NextOrder == Wait \/ BuyOrder \/ SellOrder

SpecOrder == InitOrder /\ [][NextOrder]_vars

SpecPrice == Init /\ [][NextPrice]_vars

\* run() calls update_target_coins
UpdateTargets ==
    /\ tpc = "update"
    /\ \E f \in Fetches :
         /\ fetch_ok' = f.ok
         /\ \E paid \in [Dropped(get_top_gainers(f)) -> BOOLEAN] :
               update_target_coins(get_top_gainers(f), paid)
    /\ tpc' = "monitor"
    /\ UNCHANGED <<cfgvars, btvars, row, ts, pc, gvars, mvars, uvars>>

\* run() calls monitor_and_trade
Monitor ==
    /\ tpc = "monitor"
    /\ \E done \in [Range(target_coins) -> BOOLEAN] : monitor_and_trade(done)
    /\ tpc' = "update"
    /\ UNCHANGED <<cfgvars, btvars, row, ts, pc, gvars, mvars, uvars, fetch_ok>>

NextTrader == UpdateTargets \/ Monitor

SpecTrader == Init /\ [][NextTrader]_vars

(***************************************************************************)
(* The trade log, read by position: a BUY line and the SELL lines up to    *)
(* the next BUY.                                                           *)
(***************************************************************************)
BuyIdx == {i \in DOMAIN records : records[i].side = "BUY"}

NextBuy(i) ==
    LET later == {j \in BuyIdx : j > i}
    IN  IF later = {} THEN Len(records) + 1
        ELSE CHOOSE j \in later : \A k \in later : j <= k

SellsOf(i) == {j \in DOMAIN records : i < j /\ j < NextBuy(i)}

IsLastBuy(i) == NextBuy(i) = Len(records) + 1

RECURSIVE SumQty(_)
SumQty(S) ==
    IF S = {} THEN Zero
    ELSE LET j == CHOOSE x \in S : \A y \in S : x <= y
         IN  Add(records[j].qty, SumQty(S \ {j}))

PartialsOf(i, thr) ==
    {j \in SellsOf(i) : records[j].note = "PARTIAL" /\ records[j].thr = thr}

LastRec == records[Len(records)]

\* the step that processes one row of df
IsBarStep == ts' = ts + 1

\* C1: for every position, the quantities of its SELL lines sum to the
\* quantity bought at its entry once it is closed (plus the remaining units
\* while it is open), and no units remain when no position is open.
C1_Conservation ==
    /\ \A i \in BuyIdx :
        IF IsLastBuy(i) /\ in_pos
        THEN Add(SumQty(SellsOf(i)), units) = records[i].qty
        ELSE SumQty(SellsOf(i)) = records[i].qty
    /\ ~in_pos => units = Zero

C1_Witness ==
    /\ pc = "done"
    /\ \E i \in BuyIdx :
        /\ Cardinality(SellsOf(i)) >= 3
        /\ \E j \in SellsOf(i) : records[j].note = "PARTIAL"
        /\ \E j \in SellsOf(i) : records[j].note \in {"STOP_LOSS", "TREND_EXIT", "FORCED_EXIT"}

\* C2: in one position no ladder threshold has more than one partial-exit
\* SELL line.
C2_AtMostOncePerPosition ==
    \A i \in BuyIdx : \A thr \in Range(PARTIAL_TRIGGERS) :
        Cardinality(PartialsOf(i, thr)) <= 1

\* a later bar of the same position whose high is above a fired threshold
C2_Witness ==
    /\ in_pos
    /\ \E thr \in Range(PARTIAL_TRIGGERS) :
        /\ hit[thr]
        /\ Le(LadderTarget(entry, thr), row.high)
        /\ \E j \in DOMAIN records :
            records[j].note = "PARTIAL" /\ records[j].thr = thr /\ records[j].time < ts

\* C3: a bar of an open position whose low is at or below the stop-loss
\* price and whose high reaches an unfired ladder target records exactly one
\* SELL, the stop-loss for all remaining units, and marks no trigger fired.
C3_StopLossFirst ==
    [][(/\ IsBarStep
        /\ ~AnyNaN(row')
        /\ in_pos
        /\ Le(row'.low, StopLossPrice(entry))
        /\ \E thr \in Range(PARTIAL_TRIGGERS) :
              ~hit[thr] /\ Le(LadderTarget(entry, thr), row'.high))
       => (/\ Len(records') = Len(records) + 1
           /\ records'[Len(records')].side = "SELL"
           /\ records'[Len(records')].note = "STOP_LOSS"
           /\ records'[Len(records')].qty = units
           /\ records'[Len(records')].time = ts'
           /\ SubSeq(records', 1, Len(records)) = records
           /\ hit' = hit
           /\ units' = Zero
           /\ ~in_pos')]_vars

C3_Witness ==
    /\ ~in_pos
    /\ records # <<>>
    /\ LastRec.note = "STOP_LOSS"
    /\ LastRec.time = ts
    /\ Len(records) >= 3
    /\ records[Len(records) - 1].note = "PARTIAL"
    /\ \E thr \in Range(PARTIAL_TRIGGERS) :
        /\ ~hit[thr]
        /\ Le(LadderTarget(records[Len(records) - 2].price, thr), row.high)
        /\ records[Len(records) - 2].side = "BUY"

\* the step that enters a position
IsBuyStep ==
    /\ Len(records') = Len(records) + 1
    /\ records'[Len(records')].side = "BUY"

C7_ExampleBar ==
    /\ IsBarStep
    /\ ~AnyNaN(row')
    /\ in_pos
    /\ entry = R(100, 1)
    /\ PARTIAL_FRACTION = R(1, 4)
    /\ \A thr \in Range(PARTIAL_TRIGGERS) : ~hit[thr]
    /\ row'.high = R(508, 5)
    /\ Lt(StopLossPrice(entry), row'.low)
    /\ ~TenkanDown(row')

C7_ThreeRungsFire ==
    /\ hit'[R(1, 2)] /\ hit'[R(1, 1)] /\ hit'[R(3, 2)] /\ ~hit'[R(2, 1)]
    /\ Len(records') = Len(records) + 3

\* a later bar of that position whose low crosses the stop-loss price
C7_StopBar ==
    /\ IsBarStep
    /\ ~AnyNaN(row')
    /\ in_pos
    /\ entry = R(100, 1)
    /\ PARTIAL_FRACTION = R(1, 4)
    /\ hit[R(1, 2)] /\ hit[R(1, 1)] /\ hit[R(3, 2)] /\ ~hit[R(2, 1)]
    /\ Le(row'.low, StopLossPrice(entry))

C7_StopSellsRemainder ==
    /\ units' = Zero
    /\ ~in_pos'
    /\ Len(records') = Len(records) + 1
    /\ records'[Len(records')].note = "STOP_LOSS"
    /\ records'[Len(records')].qty = units

\* C7 as claimed: the three rungs fire on the example bar and leave 25% of
\* the quantity bought at entry; a later stop-loss bar sells that remainder.
C7_Leaves25Percent ==
    /\ [][C7_ExampleBar =>
            C7_ThreeRungsFire /\ units' = Mul(R(1, 4), units)]_vars
    /\ [][C7_StopBar => C7_StopSellsRemainder]_vars

\* C7 amended: the three rungs fire on the example bar and leave
\* (1 - 0.25)^3 = 27/64 (42.1875%) of the quantity bought at entry; a later
\* stop-loss bar sells all of that remainder.
C7_Leaves27Of64 ==
    /\ [][C7_ExampleBar =>
            C7_ThreeRungsFire /\ units' = Mul(R(27, 64), units)]_vars
    /\ [][C7_StopBar => C7_StopSellsRemainder]_vars

C7_Witness ==
    /\ ~in_pos
    /\ Len(records) = 5
    /\ records[1].side = "BUY" /\ records[1].price = R(100, 1)
    /\ records[2].note = "PARTIAL" /\ records[3].note = "PARTIAL"
    /\ records[4].note = "PARTIAL"
    /\ records[2].time = records[4].time
    /\ records[5].note = "STOP_LOSS"
    /\ records[5].time > records[4].time
    /\ records[5].qty = Mul(R(27, 64), records[1].qty)

\* C8: every stop-loss SELL line is filled at
\* entry * (1 + STOP_LOSS_PCT/100) * (1 - SLIPPAGE), whatever the bar's low,
\* for all the units that remained.
C8_StopLossFill ==
    \A i \in BuyIdx : \A j \in SellsOf(i) :
        records[j].note = "STOP_LOSS" =>
            /\ records[j].price =
                 Mul(Mul(records[i].price, Add(One, Div(STOP_LOSS_PCT, Hundred))),
                     Sub(One, SLIPPAGE))
            /\ records[j].qty =
                 Sub(records[i].qty, SumQty({k \in SellsOf(i) : k < j}))
            /\ j = NextBuy(i) - 1

\* a stop-loss on a bar whose low is strictly below the stop-loss price,
\* after a partial exit, with slippage
C8_Witness ==
    /\ records # <<>>
    /\ LastRec.note = "STOP_LOSS"
    /\ LastRec.time = ts
    /\ Lt(Zero, SLIPPAGE)
    /\ Lt(Mul(row.low, Sub(One, SLIPPAGE)), LastRec.price)
    /\ Len(records) >= 2
    /\ records[Len(records) - 1].note = "PARTIAL"

\* C9: a row with a missing (NaN) required column changes nothing: cash,
\* units, entry, in_pos, hit and the trade log are as before the row.
C9_NaNRowSkipped ==
    [][(IsBarStep /\ \E c \in NumericCols : row'[c] = NaN)
          => UNCHANGED btvars]_vars

\* a malformed row, met while a position is open, whose low is at or below
\* the stop-loss price
C9_Witness ==
    /\ \E c \in NumericCols : row[c] = NaN
    /\ ts >= 2
    /\ in_pos
    /\ Le(row.low, StopLossPrice(entry))

\* C10 as claimed: in every state reached (after each bar, after the forced
\* exit) units > 0 exactly when in_pos.
C10_QtyIffOpen == Lt(Zero, units) <=> in_pos

\* C5 as claimed: a candidate registered at round R has been evaluated, once
\* round R+1 is over, exactly when round R+1 came to the evaluation step.
C5_EvaluatedIffNextRound ==
    \A reg \in registered :
        reg[2] + 1 <= loop_round =>
            ((\E e \in evaluated : e[1] = reg[1] /\ e[2] = reg[2])
                <=> (reg[2] + 1 \in reached))

\* C6 as claimed: a new bot built over the snapshot that save_state wrote of
\* the running bot has every account and position field of the running bot.
C6_RoundTrip ==
    [][(boots' = boots + 1 /\ state_file = Snapshot(Bot)) => UNCHANGED memvars]_vars

\* the step that ends the run of backtest()
IsFinishStep == pc = "loop" /\ pc' = "done"

\* C11 as claimed: when df is exhausted with a position open, exactly one
\* FORCED_EXIT SELL is recorded, for all remaining units, at the last
\* available price (a number) times (1 - SLIPPAGE), and nothing is held
\* afterwards; with no position open nothing is recorded.
C11_ForcedExitAtLastPrice ==
    [][IsFinishStep =>
        IF in_pos
        THEN /\ Len(records') = Len(records) + 1
             /\ SubSeq(records', 1, Len(records)) = records
             /\ records'[Len(records')].note = "FORCED_EXIT"
             /\ records'[Len(records')].qty = units
             /\ ~isna(records'[Len(records')].price)
             /\ records'[Len(records')].price = Mul(row.close, Sub(One, SLIPPAGE))
             /\ units' = Zero
             /\ ~in_pos'
        ELSE records' = records]_vars

\* C12 as claimed: when run() has been left on KeyboardInterrupt, no
\* quantity is held any more: every open position was liquidated by a
\* forced exit before the loop was left.
C12_ShutdownLiquidates ==
    ~running => \A t \in DOMAIN virtual_coin : ~Lt(Zero, virtual_coin[t])

\* the invocations of func() that did not raise
Returned(r) == {i \in DOMAIN r.outcomes : ~r.outcomes[i].raises}

\* C13: retry_on_failure invokes func at most max_retries times; while it
\* loops every invocation so far has raised; it never lets the exception
\* out; it returns at the first invocation that does not raise, with that
\* invocation's value, and returns None after max_retries failures.
C13_RetryContract ==
    /\ Len(retry.outcomes) <= retry.max_retries
    /\ retry.pc \in {"loop", "returned"}
    /\ retry.pc = "loop" =>
          Returned(retry) = {} /\ Len(retry.outcomes) < retry.max_retries
    /\ retry.pc = "returned" =>
          IF Returned(retry) = {}
          THEN Len(retry.outcomes) = retry.max_retries /\ retry.result = None
          ELSE /\ Returned(retry) = {Len(retry.outcomes)}
               /\ retry.result = retry.outcomes[Len(retry.outcomes)].value

\* a call with the default arguments that failed MAX_RETRIES times and
\* returned None
C13_Witness ==
    /\ retry.pc = "returned"
    /\ retry.max_retries = MAX_RETRIES
    /\ Len(retry.outcomes) = MAX_RETRIES
    /\ Returned(retry) = {}
    /\ retry.result = None

\* a step of the running bot in which no order was filled: whatever buy or
\* sell process_symbol attempted in it was abandoned
IsNoFillStep == running /\ running' /\ boots' = boots /\ orders' = orders

\* C14 as claimed: when a buy or sell attempt is abandoned, the in_position
\* flag, the holdings, the cash and the invested amount are what they were
\* before the attempt.
C14_AbandonedLeavesState ==
    [][IsNoFillStep =>
          UNCHANGED <<in_position, virtual_coin, virtual_krw, invested_krw>>]_vars

\* a call of get_current_price has just been made (the clock stands still)
IsPriceStep == clock' = clock /\ price_call' # NoCall

\* the entry of the called ticker before the call, and whether its age is
\* below the TTL
HasEntry == price_call'.ticker \in DOMAIN price_cache

IsFresh ==
    HasEntry /\ clock - price_cache[price_call'.ticker].time < price_cache_ttl

\* C15: with use_cache, get_current_price answers from the cache, without
\* calling the API, exactly when the ticker has an entry younger than the
\* TTL, and then returns that entry's price; an entry of age TTL or more is
\* never returned: the API is called and the call returns the fetched price
\* if valid and None otherwise; the cache changes only by storing a valid
\* fetched price at the time of the call.
C15_CacheContract ==
    [][IsPriceStep =>
        /\ price_call'.use_cache => (~price_call'.api_called <=> IsFresh)
        /\ ~price_call'.use_cache => price_call'.api_called
        /\ ~price_call'.api_called =>
              /\ price_call'.result = price_cache[price_call'.ticker].price
              /\ price_cache' = price_cache
        /\ price_call'.api_called =>
              IF validate_price(price_call'.fetched)
              THEN /\ price_call'.result = price_call'.fetched
                   /\ price_cache' =
                        Put(price_cache, price_call'.ticker,
                            [price |-> price_call'.fetched, time |-> clock])
              ELSE /\ price_call'.result = None
                   /\ price_cache' = price_cache
        /\ \A t \in DOMAIN price_cache' : validate_price(price_cache'[t].price)
      ]_vars

\* an entry has reached the age of the TTL and a call with use_cache, whose
\* fetch failed, has returned None and left the entry in place
C15_Witness ==
    /\ price_call.use_cache /\ price_call.api_called
    /\ price_call.fetched = None /\ price_call.result = None
    /\ price_call.ticker \in DOMAIN price_cache
    /\ clock - price_cache[price_call.ticker].time = price_cache_ttl

\* the snapshot of the bot as it is in memory
SnapshotNow == Snapshot(Bot)

\* a step of the running bot that changed what a snapshot holds and in
\* which a write of the state file succeeded
IsSavedMutation ==
    /\ running /\ running' /\ boots' = boots
    /\ SnapshotNow' # SnapshotNow
    /\ state_file' # state_file /\ state_file'.kind = "snapshot"

\* C16 as claimed: when a state-mutating action of the bot has completed
\* and its write succeeded, the persisted snapshot equals the in-memory
\* state.
C16_SnapshotAfterMutation ==
    [][IsSavedMutation => state_file' = SnapshotNow']_vars

\* C17 as claimed: the state file is never a partial snapshot.
C17_AtomicWrite == state_file.kind # "partial"

\* the in-memory state of a bot, without its file
Mem(b) ==
    <<b.virtual_krw, b.virtual_coin, b.in_position, b.current_bar_time,
      b.entry_price_map, b.invested_krw, b.orders>>

\* C18: a failing write in save_state leaves the in-memory state as it
\* was, and the buy or sell that called it ends with the same cash,
\* holdings, flags and invested amounts as when the write succeeds.
C18_FailedSaveKeepsMemory ==
    \A w \in SaveOutcomes \ {"ok"} :
        /\ Mem(save_state(Bot, w)) = Mem(Bot)
        /\ \A ticker \in Tickers, price \in Prices :
              /\ Mem(buy_market(Bot, ticker, Mul(virtual_krw, ORDER_KRW_PORTION),
                                price, w))
                   = Mem(buy_market(Bot, ticker, Mul(virtual_krw, ORDER_KRW_PORTION),
                                    price, "ok"))
              /\ Mem(sell_market(Bot, ticker, price, w))
                   = Mem(sell_market(Bot, ticker, price, "ok"))

\* a buy was filled, its write failed after truncating the file, and the
\* bot goes on with the bought quantity and the invested amount in memory
C18_Witness ==
    /\ running
    /\ state_file = Truncated
    /\ orders = 1
    /\ \E t \in DOMAIN virtual_coin :
          /\ Lt(Zero, virtual_coin[t])
          /\ t \in DOMAIN invested_krw /\ Lt(Zero, invested_krw[t])

\* C19: an evaluation calls buy_with_ratio exactly when the market is in
\* the current ranking with a rank number strictly below its baseline rank.
C19_BuyIffRankImproved ==
    \A dc \in decisions :
        dc.buy <=> (dc.new_rank # 0 /\ dc.new_rank < dc.base_rank)

\* a candidate registered at rank 2 was evaluated at rank 1 and bought, and
\* another was evaluated at an unchanged rank without a buy attempt
C19_Witness ==
    /\ \E dc \in decisions :
          dc.base_rank = 2 /\ dc.new_rank = 1 /\ dc.buy /\ dc.market \in positions
    /\ \E dc \in decisions : dc.new_rank = dc.base_rank /\ ~dc.buy

\* C20 as claimed: a candidate evaluated in the round that has just ended
\* is no longer in the candidate map, whatever its evaluation led to, and
\* no registration is evaluated in two rounds.
C20_EvaluatedThenGone ==
    /\ \A e \in evaluated :
          e[3] = loop_round => \A i \in DOMAIN candidates : candidates[i].market # e[1]
    /\ \A e1, e2 \in evaluated :
          (e1[1] = e2[1] /\ e1[2] = e2[2]) => e1[3] = e2[3]

\* update_target_coins has just run and its ranking fetch had failed
IsFailedUpdate == tpc = "update" /\ tpc' = "monitor" /\ ~fetch_ok'

\* C21 as claimed: a failed ranking fetch sells no held instrument and
\* drops no held instrument from the monitored set.
C21_FailedFetchKeepsPositions ==
    [][IsFailedUpdate =>
          /\ virtual_portfolio' = virtual_portfolio
          /\ \A m \in virtual_portfolio : m \in Range(target_coins)
                                            => m \in Range(target_coins')]_vars

\* C22 as claimed: a round that obtained a ranking runs to its end whatever
\* the calls made while buying do, so that every candidate that was due or
\* expired has been processed and removed: the candidates left are those
\* born in the round.
C22_BuyFailureNotFatal ==
    loop_round \in reached =>
        \A i \in DOMAIN candidates : candidates[i].round = loop_round

\* the dry-run branch of buy_market for a bot whose cash is the backtest's
\* cash, with the backtest's budget, at the reference price of the bar
LiveBuy ==
    buy_market([Bot EXCEPT !.virtual_krw = cash], "KRW-BTC",
               Mul(cash, INVEST_RATIO), row'.close, "ok")

\* C23 as claimed: for the same reference price, budget, fee rate and
\* slippage rate the entry of backtest and the dry-run buy_market give the
\* same fill price, the same quantity and the same cash debit (buy_market
\* fills at the fetched price itself).
C23_SameBuyFill ==
    [][IsBuyStep =>
          /\ records'[Len(records')].price = row'.close
          /\ records'[Len(records')].qty = Get(LiveBuy.virtual_coin, "KRW-BTC", Zero)
          /\ cash' = LiveBuy.virtual_krw]_vars

\* the partial-exit lines of the position entered at line i of the log
RungsOf(i) == {j \in SellsOf(i) : records[j].note = "PARTIAL"}

RECURSIVE Pow(_, _)
Pow(x, n) == IF n = 0 THEN One ELSE Mul(x, Pow(x, n - 1))

\* C24: every partial-exit SELL of a position is filled at exactly
\* entry*(1 + thr/100), entry being the fill price of the position's BUY,
\* for PARTIAL_FRACTION of the quantity that remained just before it; the
\* rungs of one bar are logged in ascending order of threshold; the entry
\* price of the open position is that of its BUY, and after k rungs the
\* quantity left is the entry quantity times (1 - PARTIAL_FRACTION)^k.
C24_LadderRungs ==
    \A i \in BuyIdx :
        /\ \A j \in RungsOf(i) :
              /\ records[j].price =
                    Mul(records[i].price, Add(One, Div(records[j].thr, Hundred)))
              /\ records[j].qty =
                    Mul(Sub(records[i].qty, SumQty({k \in SellsOf(i) : k < j})),
                        PARTIAL_FRACTION)
              /\ \A k \in RungsOf(i) :
                    (k < j /\ records[k].time = records[j].time)
                        => Lt(records[k].thr, records[j].thr)
        /\ (IsLastBuy(i) /\ in_pos) =>
              /\ entry = records[i].price
              /\ units = Mul(records[i].qty,
                             Pow(Sub(One, PARTIAL_FRACTION), Cardinality(RungsOf(i))))

\* an open position, a quarter sold at each rung, of which two rungs fired
\* on one bar and a third on a later bar
C24_Witness ==
    /\ in_pos /\ PARTIAL_FRACTION = R(1, 4)
    /\ \E i \in BuyIdx :
          /\ IsLastBuy(i)
          /\ Cardinality(RungsOf(i)) = 3
          /\ \E j, k \in RungsOf(i) : j # k /\ records[j].time = records[k].time
          /\ \E j, k \in RungsOf(i) : records[j].time < records[k].time

\* the sum of the quantities of the lines S of a log
RECURSIVE SumOf(_, _)
SumOf(recs, S) ==
    IF S = {} THEN Zero
    ELSE LET j == CHOOSE x \in S : TRUE
         IN  Add(recs[j].qty, SumOf(recs, S \ {j}))

\* the lines the bar has added to the log, and what its ladder has left
NewLines == {j \in DOMAIN records' : j > Len(records)}

LeftByLadder ==
    Sub(units, SumOf(records', {j \in NewLines : records'[j].note = "PARTIAL"}))

\* a well-formed bar of an open position on which the stop-loss is not hit
IsHoldingStep ==
    /\ IsBarStep /\ in_pos
    /\ \A c \in NumericCols : row'[c] # NaN
    /\ ~(Le(row'.low, StopLossPrice(entry)) /\ Lt(Zero, units))

\* C25: on such a bar the trend exit comes after the ladder and fires
\* exactly when quantity remains and tenkan < tenkan_prev; it sells all
\* that remains at close*(1 - SLIPPAGE) and closes the position; otherwise
\* the position stays open with the quantity the ladder left.
C25_TrendExitAfterLadder ==
    [][IsHoldingStep =>
        IF Lt(Zero, LeftByLadder) /\ Lt(row'.tenkan, row'.tenkan_prev)
        THEN /\ records'[Len(records')].note = "TREND_EXIT"
             /\ Len(records') > Len(records)
             /\ records'[Len(records')].price = Mul(row'.close, Sub(One, SLIPPAGE))
             /\ records'[Len(records')].qty = LeftByLadder
             /\ \A j \in NewLines : j < Len(records') => records'[j].note = "PARTIAL"
             /\ units' = Zero /\ ~in_pos'
        ELSE /\ \A j \in NewLines : records'[j].note = "PARTIAL"
             /\ in_pos' /\ units' = LeftByLadder]_vars

\* a bar on which two rungs fired and the trend exit then sold the rest
C25_Witness ==
    /\ ~in_pos /\ Len(records) > 2
    /\ LastRec.note = "TREND_EXIT" /\ LastRec.time = ts
    /\ Lt(Zero, LastRec.qty)
    /\ records[Len(records) - 1].note = "PARTIAL"
    /\ records[Len(records) - 1].time = ts
    /\ records[Len(records) - 2].note = "PARTIAL"
    /\ records[Len(records) - 2].time = ts

\* a bar with no NaN column
IsWellFormedStep == IsBarStep /\ \A c \in NumericCols : row'[c] # NaN

\* C26: on a well-formed bar a BUY is recorded exactly when no position is
\* open, buy_sig is true and the budget cash*INVEST_RATIO is positive; the
\* entry price is then close*(1 + SLIPPAGE) and the quantity bought is
\* positive; a bar without a position that does not enter changes nothing.
C26_EntryCondition ==
    [][IsWellFormedStep =>
        /\ IsBuyStep <=>
              (~in_pos /\ row'.buy_sig /\ Lt(Zero, Mul(cash, INVEST_RATIO)))
        /\ IsBuyStep =>
              /\ in_pos'
              /\ entry' = Mul(row'.close, Add(One, SLIPPAGE))
              /\ records'[Len(records')].price = entry'
              /\ Lt(Zero, units') /\ records'[Len(records')].qty = units'
        /\ (~in_pos /\ ~IsBuyStep) => UNCHANGED btvars]_vars

\* an entry with half of the cash at a fill above the close, and earlier in
\* the run a bar without a position and without buy_sig
C26_Witness ==
    /\ in_pos /\ ts > 1
    /\ Len(records) = 1 /\ LastRec.side = "BUY" /\ LastRec.time = ts
    /\ INVEST_RATIO = R(1, 2) /\ SLIPPAGE = R(1, 4)
    /\ entry = Mul(row.close, Add(One, SLIPPAGE))
    /\ Lt(Zero, cash)

\* C27: right after every entry no ladder trigger is marked fired.
C27_TriggersResetOnEntry ==
    [][IsBuyStep => \A thr \in Range(PARTIAL_TRIGGERS) : ~hit'[thr]]_vars

\* a second entry, right after a position in which rungs had fired
C27_Witness ==
    /\ in_pos /\ LastRec.side = "BUY" /\ LastRec.time = ts
    /\ Cardinality(BuyIdx) = 2
    /\ \E j \in DOMAIN records : records[j].note = "PARTIAL"
    /\ \A thr \in Range(PARTIAL_TRIGGERS) : ~hit[thr]

\* a round that obtained a ranking has just run
IsRankedRound == loop_round' = loop_round + 1 /\ loop_round' \in reached'

\* the instruments of the round's ranking that were not in the ranking
\* before it
NewInRanking ==
    IF last_ranking = <<>> THEN {}
    ELSE Range(last_ranking') \ Range(last_ranking)

\* C28 as claimed: a round that obtains a ranking registers exactly the
\* instruments that are in its ranking and were not in the previous one,
\* with their current rank and the current round; the first ranking
\* registers none.
C28_NewEntriesRegistered ==
    [][IsRankedRound =>
          /\ registered' = registered \cup {<<m, loop_round'>> : m \in NewInRanking}
          /\ \A m \in NewInRanking :
                \E i \in DOMAIN candidates' :
                    candidates'[i] = [market |-> m,
                                      rank |-> RankOf(last_ranking', m),
                                      round |-> loop_round']]_vars

\* the running bot holds ticker t, flagged in position, and the state file
\* is the snapshot of the bot as it is
HoldsSaved(t) ==
    /\ running
    /\ Get(in_position, t, FALSE) /\ Lt(Zero, Get(virtual_coin, t, Zero))
    /\ t \in DOMAIN current_bar_time
    /\ state_file = Snapshot(Bot)

\* C29 as claimed: a bot restarted over that snapshot, on its first tick in
\* the candle in which the position was opened, neither sells the position
\* nor buys again, as the uninterrupted bot does.
C29_RestartResumesPosition ==
    \A t \in Tickers :
        HoldsSaved(t) =>
            \A df \in Candles, ps \in Prices, pb \in Prices :
                (df.valid /\ df.time = current_bar_time[t]) =>
                    /\ process_symbol(Bot, t, df, ps, pb, "ok").orders = orders
                    /\ process_symbol(NewBot(state_file, orders), t, df, ps, pb,
                                      "ok").orders = orders

\* C30: the i-th wait of a call lasts delay * backoff^(i-1); there is one
\* wait after each failed attempt that is followed by another attempt, and
\* none after a successful attempt or after the last failed attempt.
C30_BackoffDelays ==
    /\ \A i \in DOMAIN retry.slept :
          retry.slept[i] = Mul(retry.delay, Pow(retry.backoff, i - 1))
    /\ Len(retry.slept) =
          IF retry.pc = "loop" THEN Len(retry.outcomes)
          ELSE Len(retry.outcomes) - 1

\* a call with delay 3 and backoff 3 that failed three times: it waited 3
\* and 9 seconds and did not wait after the third failure
C30_Witness ==
    /\ retry.pc = "returned" /\ retry.max_retries = MAX_RETRIES
    /\ \A i \in DOMAIN retry.outcomes : retry.outcomes[i].raises
    /\ retry.slept = <<R(3, 1), R(9, 1)>>

\* C31 as claimed: backtest() always returns a log and a summary; when no
\* entry ever fired the log is empty and the summary shows zero closed trades
\* and a final value equal to the initial cash.
C31_EmptyRunReturns ==
    (pc # "loop" /\ records = <<>>) =>
        /\ pc = "done"
        /\ ~Summary(records, cash).raised
        /\ Summary(records, cash).total_trades = 0
        /\ Summary(records, cash).final_value = R(INITIAL_CASH, 1)

\* C32: a bar records at most one BUY; the bar of an entry records nothing
\* but that BUY and leaves the position whole with no trigger fired, whatever
\* its low and high; a bar that records a SELL records no BUY.
C32_EntryBarIsolated ==
    [][IsBarStep =>
        LET buys  == {j \in NewLines : records'[j].side = "BUY"}
            sells == {j \in NewLines : records'[j].side = "SELL"}
        IN  /\ Cardinality(buys) <= 1
            /\ buys # {} =>
                 /\ NewLines = buys
                 /\ in_pos'
                 /\ units' = records'[Len(records')].qty
                 /\ entry' = records'[Len(records')].price
                 /\ \A thr \in Range(PARTIAL_TRIGGERS) : ~hit'[thr]
            /\ sells # {} => buys = {}]_vars

\* a position entered on a bar whose low is under its stop-loss price and
\* whose high is over its first ladder target
C32_Witness ==
    /\ pc = "loop" /\ in_pos /\ records # <<>>
    /\ records[Len(records)].side = "BUY"
    /\ records[Len(records)].time = ts
    /\ Le(row.low, StopLossPrice(entry))
    /\ Le(LadderTarget(entry, R(1, 2)), row.high)

\* the amount a SELL line credits: price * qty less the fee
Credit(r) == Mul(Mul(r.price, r.qty), Sub(One, FEE_RATE))

\* the step of backtest() adds SELL lines only, at least one
IsSellStep ==
    /\ NewLines # {}
    /\ \A j \in NewLines : records'[j].side = "SELL"

SellsUpTo(i, j) == {k \in SellsOf(i) : k <= j}

\* C34: the log never starts with a SELL; the SELL lines between a BUY and
\* the next BUY are at least one and sell the bought quantity in full; every
\* SELL comes after the BUY before it (on a later bar unless it is the forced
\* exit) and sells no more than that BUY still holds; the log backtest() returns ends, if it holds a BUY, with a
\* SELL after which nothing of the last BUY remains.
C34_LogWellFormed ==
    /\ records # <<>> => records[1].side = "BUY"
    /\ \A i \in BuyIdx :
        /\ ~IsLastBuy(i) =>
             (SellsOf(i) # {} /\ SumQty(SellsOf(i)) = records[i].qty)
        /\ \A j \in SellsOf(i) :
             /\ records[j].side = "SELL"
             /\ records[j].time >= records[i].time
             /\ records[j].note # "FORCED_EXIT" => records[j].time > records[i].time
             /\ Le(Zero, records[j].qty)
             /\ Le(SumQty(SellsUpTo(i, j)), records[i].qty)
    /\ \A i, j \in DOMAIN records : i < j => records[i].time <= records[j].time
    /\ (pc = "done" /\ BuyIdx # {}) =>
        /\ LastRec.side = "SELL"
        /\ \A i \in BuyIdx : SumQty(SellsOf(i)) = records[i].qty

\* a returned log of two positions, the second closed by the forced exit
C34_Witness ==
    /\ pc = "done"
    /\ Cardinality(BuyIdx) = 2
    /\ LastRec.note = "FORCED_EXIT"
    /\ \E j \in DOMAIN records : records[j].note = "PARTIAL"

\* the markets of the model and one more, to fill MAX_HOLDINGS and ask again
MoreMarkets == Markets \cup {"KRW-D"}

Accepted(o) == {m \in DOMAIN o : o[m] = "accepted"}

\* C36: whatever the next round meets, a market that its registration and
\* evaluation steps add to positions had its buy order accepted in that
\* round, a market whose buy was skipped or failed is not added, and these
\* steps remove nothing; a market that the sell phase removes had its sell
\* order accepted, a position whose sell was skipped or failed stays, with
\* its blocklist entry, and the sell phase adds nothing.
C36_PositionsFollowOrders ==
    /\ \A f \in Fetches :
         \A ord \in Orders(NewEntries(GSt, f.top)) :
           \A bo \in [Buyers(f.top) -> BuyOutcomes] :
             LET g == Round(GSt, f, ord, bo, [m \in Checked(f, bo) |-> "rsi_up"])
             IN  /\ g.positions \ positions \subseteq Accepted(bo)
                 /\ g.buy_blocklist \ buy_blocklist \subseteq Accepted(bo)
                 /\ positions \subseteq g.positions
                 /\ buy_blocklist \subseteq g.buy_blocklist
    /\ \A so \in [positions -> SellOutcomes] :
         LET g == SellPhase(GSt, so)
         IN  /\ positions \ g.positions \subseteq Accepted(so)
             /\ buy_blocklist \ g.buy_blocklist \subseteq Accepted(so)
             /\ g.positions \subseteq positions
             /\ g.buy_blocklist \subseteq buy_blocklist
             /\ \A m \in positions \ Accepted(so) :
                   m \in g.positions /\ m \in g.buy_blocklist

\* a position is held, and a market that buy_with_ratio was called for is
\* not held
C36_Witness ==
    /\ positions # {}
    /\ \E dc \in decisions : dc.buy /\ dc.market \notin positions

\* a step of the running bot: a call of process_symbol or a save
IsRunStep == running /\ running' /\ boots' = boots

\* process_symbol has just taken the candle of ticker t for a new one
IsNewCandleFor(t) ==
    /\ t \in DOMAIN current_bar_time'
    /\ t \in DOMAIN current_bar_time => current_bar_time'[t] # current_bar_time[t]

\* C37 as claimed: while a position is flagged open in the candle it was
\* opened in, no further order is filled for it; on the first tick of another
\* candle the position, if it holds anything, is sold before anything else:
\* after that tick the holding is 0, or a sell and a new buy were both filled.
C37_OneBuyThenSoldAtNewCandle ==
    [][IsRunStep =>
        \A t \in Tickers :
            Get(in_position, t, FALSE) =>
                IF IsNewCandleFor(t)
                THEN \/ Get(virtual_coin, t, Zero) = Zero
                     \/ Get(virtual_coin', t, Zero) = Zero
                     \/ orders' = orders + 2
                ELSE orders' = orders]_vars

\* C38: whatever the price cache holds, buy_market and sell_market fill at
\* the price fetched during the call: when the fetch gives no valid price the
\* trade is skipped and nothing changes, even with a cache entry younger than
\* the TTL; when it gives a valid price the cache entry of the ticker becomes
\* that price at the time of the call, and a filled order is filled at it.
C38_OrdersFetchPrice ==
    \A ticker \in Tickers, fetched \in Fetched, w \in SaveOutcomes :
        LET amount == Mul(virtual_krw, ORDER_KRW_PORTION)
            qty    == Get(virtual_coin, ticker, Zero)
            x == buy_market_fetch(Bot, price_cache, ticker, amount, clock, fetched, w)
            y == sell_market_fetch(Bot, price_cache, ticker, clock, fetched, w)
            entry_now == [price |-> fetched, time |-> clock]
        IN  IF validate_price(fetched)
            THEN /\ Lt(Zero, amount) => x.cache = Put(price_cache, ticker, entry_now)
                 /\ y.cache = Put(price_cache, ticker, entry_now)
                 /\ x.bot.orders # orders =>
                      Mul(Sub(Get(x.bot.virtual_coin, ticker, Zero), qty), fetched)
                        = Mul(Sub(virtual_krw, x.bot.virtual_krw), Sub(One, fee_rate))
                 /\ y.bot.orders # orders =>
                      Sub(y.bot.virtual_krw, virtual_krw)
                        = Mul(Mul(qty, fetched), Sub(One, fee_rate))
            ELSE /\ x.bot = Bot /\ x.cache = price_cache
                 /\ y.bot = Bot /\ y.cache = price_cache

\* coins are held after an order, and the cache holds for them an entry of
\* an earlier time that is younger than the TTL
C38_Witness ==
    \E t \in Tickers :
        /\ orders >= 1
        /\ Lt(Zero, Get(virtual_coin, t, Zero))
        /\ t \in DOMAIN price_cache
        /\ clock - price_cache[t].time < price_cache_ttl
        /\ clock > price_cache[t].time

\* update_target_coins has just run
IsUpdateStep == tpc = "update" /\ tpc' = "monitor"

\* the dry-run bot after a breakout buy of ticker t at price 100
Holding1(t) ==
    [buy_market(Bot, t, Mul(virtual_krw, ORDER_KRW_PORTION), R(100, 1), "ok")
        EXCEPT !.in_position = Put(@, t, TRUE)]

\* C39 as claimed: after update_target_coins every ticker of
\* virtual_portfolio is in target_coins; after cleanup_old_positions every
\* ticker with a positive virtual_coin is in the universe with its
\* in_position flag set, whatever the sell of a dropped ticker did.
C39_HeldStaysMonitored ==
    [][/\ IsUpdateStep =>
            \A m \in virtual_portfolio' : m \in Range(target_coins')
       /\ \A t \in Tickers, universe \in SUBSET Tickers, ps \in Prices,
             w \in SaveOutcomes :
            LET b0 == Holding1(t)
                b  == cleanup_old_positions(
                          b0, {x \in DOMAIN b0.in_position : x \notin universe},
                          ps, w)
            IN  \A x \in DOMAIN b.virtual_coin :
                    Lt(Zero, b.virtual_coin[x]) =>
                        (x \in universe /\ Get(b.in_position, x, FALSE))]_vars
=============================================================================
